---- MODULE Spec2Model ----
(***************************************************************************)
(* Lead lifecycle and deduplication of the real-estate CRM backend:        *)
(* the public brochure and query endpoints (app/routers/leads.py), the     *)
(* staff activity log (app/routers/logs.py) and the admin's creation of a  *)
(* listing (app/routers/listings.py), run against the users,               *)
(* property_queries, call_logs and listings tables (app/models/tables.py). *)
(*                                                                         *)
(* Every request runs in its own SQLAlchemy session (autoflush off) on a   *)
(* PostgreSQL connection at READ COMMITTED: a SELECT sees the committed    *)
(* rows, an INSERT of a unique key waits for an uncommitted INSERT of the  *)
(* same key, and a commit writes the pending INSERTs and the changed       *)
(* columns of the loaded rows.  Each database round trip of a handler is   *)
(* one step, so requests interleave between round trips; parsing the       *)
(* request touches no shared state and is part of the first round trip.    *)
(***************************************************************************)
EXTENDS Integers, Sequences, FiniteSets, TLC

\* Number of requests in one behaviour.
MaxRequests == 2

MinPhoneLen == 10
MaxPhoneLen == 15

\* The value of an Optional field or of a nullable column that the code
\* tests against None is None or Some(s) for the str, date or UUID s it
\* holds: None is no string, and every string, "" and "None" and "null" too,
\* is a value apart from it.
None == <<>>

Some(s) == <<s>>

\* Truth value of an Optional[str]: None and the empty string are false.
Truthy(v) == v # None /\ v[1] # ""

Requests == 1..MaxRequests

(***************************************************************************)
(* Request validation: ValidatorMixin.validate_phone.                      *)
(***************************************************************************)
\* A character is a one-character string when it is ASCII and the string
\* "U+XXXX" of its code point otherwise.
AsciiDigits == {"0", "1", "2", "3", "4", "5", "6", "7", "8", "9"}

\* str.isdigit() asks the Unicode database of the interpreter that runs the
\* service, and the repository names no interpreter.  The Unicode versions
\* of the interpreters its libraries run on: 12.1.0 (Python 3.8), 13.0.0
\* (3.9 and 3.10), 14.0.0 (3.11), 15.0.0 (3.12), 15.1.0 (3.13), 16.0.0 (3.14).
UnicodeVersions == {"12.1.0", "13.0.0", "14.0.0", "15.0.0", "15.1.0", "16.0.0"}

\* The versions from 13.0.0, from 14.0.0, from 15.0.0 and from 16.0.0 on.
Since13 == UnicodeVersions \ {"12.1.0"}

Since14 == Since13 \ {"13.0.0"}

Since15 == Since14 \ {"14.0.0"}

Since16 == Since15 \ {"15.0.0", "15.1.0"}

\* The characters outside ASCII for which str.isdigit() holds in Unicode
\* 12.1.0: the decimal digits of the other scripts and the superscript,
\* subscript and other digit forms (Numeric_Type Decimal or Digit).
UnicodeDigits12 ==
    {"U+00B2", "U+00B3", "U+00B9", "U+0660", "U+0661", "U+0662", "U+0663",
     "U+0664", "U+0665", "U+0666", "U+0667", "U+0668", "U+0669", "U+06F0",
     "U+06F1", "U+06F2", "U+06F3", "U+06F4", "U+06F5", "U+06F6", "U+06F7",
     "U+06F8", "U+06F9", "U+07C0", "U+07C1", "U+07C2", "U+07C3", "U+07C4",
     "U+07C5", "U+07C6", "U+07C7", "U+07C8", "U+07C9", "U+0966", "U+0967",
     "U+0968", "U+0969", "U+096A", "U+096B", "U+096C", "U+096D", "U+096E",
     "U+096F", "U+09E6", "U+09E7", "U+09E8", "U+09E9", "U+09EA", "U+09EB",
     "U+09EC", "U+09ED", "U+09EE", "U+09EF", "U+0A66", "U+0A67", "U+0A68",
     "U+0A69", "U+0A6A", "U+0A6B", "U+0A6C", "U+0A6D", "U+0A6E", "U+0A6F",
     "U+0AE6", "U+0AE7", "U+0AE8", "U+0AE9", "U+0AEA", "U+0AEB", "U+0AEC",
     "U+0AED", "U+0AEE", "U+0AEF", "U+0B66", "U+0B67", "U+0B68", "U+0B69",
     "U+0B6A", "U+0B6B", "U+0B6C", "U+0B6D", "U+0B6E", "U+0B6F", "U+0BE6",
     "U+0BE7", "U+0BE8", "U+0BE9", "U+0BEA", "U+0BEB", "U+0BEC", "U+0BED",
     "U+0BEE", "U+0BEF", "U+0C66", "U+0C67", "U+0C68", "U+0C69", "U+0C6A",
     "U+0C6B", "U+0C6C", "U+0C6D", "U+0C6E", "U+0C6F", "U+0CE6", "U+0CE7",
     "U+0CE8", "U+0CE9", "U+0CEA", "U+0CEB", "U+0CEC", "U+0CED", "U+0CEE",
     "U+0CEF", "U+0D66", "U+0D67", "U+0D68", "U+0D69", "U+0D6A", "U+0D6B",
     "U+0D6C", "U+0D6D", "U+0D6E", "U+0D6F", "U+0DE6", "U+0DE7", "U+0DE8",
     "U+0DE9", "U+0DEA", "U+0DEB", "U+0DEC", "U+0DED", "U+0DEE", "U+0DEF",
     "U+0E50", "U+0E51", "U+0E52", "U+0E53", "U+0E54", "U+0E55", "U+0E56",
     "U+0E57", "U+0E58", "U+0E59", "U+0ED0", "U+0ED1", "U+0ED2", "U+0ED3",
     "U+0ED4", "U+0ED5", "U+0ED6", "U+0ED7", "U+0ED8", "U+0ED9", "U+0F20",
     "U+0F21", "U+0F22", "U+0F23", "U+0F24", "U+0F25", "U+0F26", "U+0F27",
     "U+0F28", "U+0F29", "U+1040", "U+1041", "U+1042", "U+1043", "U+1044",
     "U+1045", "U+1046", "U+1047", "U+1048", "U+1049", "U+1090", "U+1091",
     "U+1092", "U+1093", "U+1094", "U+1095", "U+1096", "U+1097", "U+1098",
     "U+1099", "U+1369", "U+136A", "U+136B", "U+136C", "U+136D", "U+136E",
     "U+136F", "U+1370", "U+1371", "U+17E0", "U+17E1", "U+17E2", "U+17E3",
     "U+17E4", "U+17E5", "U+17E6", "U+17E7", "U+17E8", "U+17E9", "U+1810",
     "U+1811", "U+1812", "U+1813", "U+1814", "U+1815", "U+1816", "U+1817",
     "U+1818", "U+1819", "U+1946", "U+1947", "U+1948", "U+1949", "U+194A",
     "U+194B", "U+194C", "U+194D", "U+194E", "U+194F", "U+19D0", "U+19D1",
     "U+19D2", "U+19D3", "U+19D4", "U+19D5", "U+19D6", "U+19D7", "U+19D8",
     "U+19D9", "U+19DA", "U+1A80", "U+1A81", "U+1A82", "U+1A83", "U+1A84",
     "U+1A85", "U+1A86", "U+1A87", "U+1A88", "U+1A89", "U+1A90", "U+1A91",
     "U+1A92", "U+1A93", "U+1A94", "U+1A95", "U+1A96", "U+1A97", "U+1A98",
     "U+1A99", "U+1B50", "U+1B51", "U+1B52", "U+1B53", "U+1B54", "U+1B55",
     "U+1B56", "U+1B57", "U+1B58", "U+1B59", "U+1BB0", "U+1BB1", "U+1BB2",
     "U+1BB3", "U+1BB4", "U+1BB5", "U+1BB6", "U+1BB7", "U+1BB8", "U+1BB9",
     "U+1C40", "U+1C41", "U+1C42", "U+1C43", "U+1C44", "U+1C45", "U+1C46",
     "U+1C47", "U+1C48", "U+1C49", "U+1C50", "U+1C51", "U+1C52", "U+1C53",
     "U+1C54", "U+1C55", "U+1C56", "U+1C57", "U+1C58", "U+1C59", "U+2070",
     "U+2074", "U+2075", "U+2076", "U+2077", "U+2078", "U+2079", "U+2080",
     "U+2081", "U+2082", "U+2083", "U+2084", "U+2085", "U+2086", "U+2087",
     "U+2088", "U+2089", "U+2460", "U+2461", "U+2462", "U+2463", "U+2464",
     "U+2465", "U+2466", "U+2467", "U+2468", "U+2474", "U+2475", "U+2476",
     "U+2477", "U+2478", "U+2479", "U+247A", "U+247B", "U+247C", "U+2488",
     "U+2489", "U+248A", "U+248B", "U+248C", "U+248D", "U+248E", "U+248F",
     "U+2490", "U+24EA", "U+24F5", "U+24F6", "U+24F7", "U+24F8", "U+24F9",
     "U+24FA", "U+24FB", "U+24FC", "U+24FD", "U+24FF", "U+2776", "U+2777",
     "U+2778", "U+2779", "U+277A", "U+277B", "U+277C", "U+277D", "U+277E",
     "U+2780", "U+2781", "U+2782", "U+2783", "U+2784", "U+2785", "U+2786",
     "U+2787", "U+2788", "U+278A", "U+278B", "U+278C", "U+278D", "U+278E",
     "U+278F", "U+2790", "U+2791", "U+2792", "U+A620", "U+A621", "U+A622",
     "U+A623", "U+A624", "U+A625", "U+A626", "U+A627", "U+A628", "U+A629",
     "U+A8D0", "U+A8D1", "U+A8D2", "U+A8D3", "U+A8D4", "U+A8D5", "U+A8D6",
     "U+A8D7", "U+A8D8", "U+A8D9", "U+A900", "U+A901", "U+A902", "U+A903",
     "U+A904", "U+A905", "U+A906", "U+A907", "U+A908", "U+A909", "U+A9D0",
     "U+A9D1", "U+A9D2", "U+A9D3", "U+A9D4", "U+A9D5", "U+A9D6", "U+A9D7",
     "U+A9D8", "U+A9D9", "U+A9F0", "U+A9F1", "U+A9F2", "U+A9F3", "U+A9F4",
     "U+A9F5", "U+A9F6", "U+A9F7", "U+A9F8", "U+A9F9", "U+AA50", "U+AA51",
     "U+AA52", "U+AA53", "U+AA54", "U+AA55", "U+AA56", "U+AA57", "U+AA58",
     "U+AA59", "U+ABF0", "U+ABF1", "U+ABF2", "U+ABF3", "U+ABF4", "U+ABF5",
     "U+ABF6", "U+ABF7", "U+ABF8", "U+ABF9", "U+FF10", "U+FF11", "U+FF12",
     "U+FF13", "U+FF14", "U+FF15", "U+FF16", "U+FF17", "U+FF18", "U+FF19",
     "U+104A0", "U+104A1", "U+104A2", "U+104A3", "U+104A4", "U+104A5",
     "U+104A6", "U+104A7", "U+104A8", "U+104A9", "U+10A40", "U+10A41",
     "U+10A42", "U+10A43", "U+10D30", "U+10D31", "U+10D32", "U+10D33",
     "U+10D34", "U+10D35", "U+10D36", "U+10D37", "U+10D38", "U+10D39",
     "U+10E60", "U+10E61", "U+10E62", "U+10E63", "U+10E64", "U+10E65",
     "U+10E66", "U+10E67", "U+10E68", "U+11052", "U+11053", "U+11054",
     "U+11055", "U+11056", "U+11057", "U+11058", "U+11059", "U+1105A",
     "U+11066", "U+11067", "U+11068", "U+11069", "U+1106A", "U+1106B",
     "U+1106C", "U+1106D", "U+1106E", "U+1106F", "U+110F0", "U+110F1",
     "U+110F2", "U+110F3", "U+110F4", "U+110F5", "U+110F6", "U+110F7",
     "U+110F8", "U+110F9", "U+11136", "U+11137", "U+11138", "U+11139",
     "U+1113A", "U+1113B", "U+1113C", "U+1113D", "U+1113E", "U+1113F",
     "U+111D0", "U+111D1", "U+111D2", "U+111D3", "U+111D4", "U+111D5",
     "U+111D6", "U+111D7", "U+111D8", "U+111D9", "U+112F0", "U+112F1",
     "U+112F2", "U+112F3", "U+112F4", "U+112F5", "U+112F6", "U+112F7",
     "U+112F8", "U+112F9", "U+11450", "U+11451", "U+11452", "U+11453",
     "U+11454", "U+11455", "U+11456", "U+11457", "U+11458", "U+11459",
     "U+114D0", "U+114D1", "U+114D2", "U+114D3", "U+114D4", "U+114D5",
     "U+114D6", "U+114D7", "U+114D8", "U+114D9", "U+11650", "U+11651",
     "U+11652", "U+11653", "U+11654", "U+11655", "U+11656", "U+11657",
     "U+11658", "U+11659", "U+116C0", "U+116C1", "U+116C2", "U+116C3",
     "U+116C4", "U+116C5", "U+116C6", "U+116C7", "U+116C8", "U+116C9",
     "U+11730", "U+11731", "U+11732", "U+11733", "U+11734", "U+11735",
     "U+11736", "U+11737", "U+11738", "U+11739", "U+118E0", "U+118E1",
     "U+118E2", "U+118E3", "U+118E4", "U+118E5", "U+118E6", "U+118E7",
     "U+118E8", "U+118E9", "U+11C50", "U+11C51", "U+11C52", "U+11C53",
     "U+11C54", "U+11C55", "U+11C56", "U+11C57", "U+11C58", "U+11C59",
     "U+11D50", "U+11D51", "U+11D52", "U+11D53", "U+11D54", "U+11D55",
     "U+11D56", "U+11D57", "U+11D58", "U+11D59", "U+11DA0", "U+11DA1",
     "U+11DA2", "U+11DA3", "U+11DA4", "U+11DA5", "U+11DA6", "U+11DA7",
     "U+11DA8", "U+11DA9", "U+16A60", "U+16A61", "U+16A62", "U+16A63",
     "U+16A64", "U+16A65", "U+16A66", "U+16A67", "U+16A68", "U+16A69",
     "U+16B50", "U+16B51", "U+16B52", "U+16B53", "U+16B54", "U+16B55",
     "U+16B56", "U+16B57", "U+16B58", "U+16B59", "U+1D7CE", "U+1D7CF",
     "U+1D7D0", "U+1D7D1", "U+1D7D2", "U+1D7D3", "U+1D7D4", "U+1D7D5",
     "U+1D7D6", "U+1D7D7", "U+1D7D8", "U+1D7D9", "U+1D7DA", "U+1D7DB",
     "U+1D7DC", "U+1D7DD", "U+1D7DE", "U+1D7DF", "U+1D7E0", "U+1D7E1",
     "U+1D7E2", "U+1D7E3", "U+1D7E4", "U+1D7E5", "U+1D7E6", "U+1D7E7",
     "U+1D7E8", "U+1D7E9", "U+1D7EA", "U+1D7EB", "U+1D7EC", "U+1D7ED",
     "U+1D7EE", "U+1D7EF", "U+1D7F0", "U+1D7F1", "U+1D7F2", "U+1D7F3",
     "U+1D7F4", "U+1D7F5", "U+1D7F6", "U+1D7F7", "U+1D7F8", "U+1D7F9",
     "U+1D7FA", "U+1D7FB", "U+1D7FC", "U+1D7FD", "U+1D7FE", "U+1D7FF",
     "U+1E140", "U+1E141", "U+1E142", "U+1E143", "U+1E144", "U+1E145",
     "U+1E146", "U+1E147", "U+1E148", "U+1E149", "U+1E2F0", "U+1E2F1",
     "U+1E2F2", "U+1E2F3", "U+1E2F4", "U+1E2F5", "U+1E2F6", "U+1E2F7",
     "U+1E2F8", "U+1E2F9", "U+1E950", "U+1E951", "U+1E952", "U+1E953",
     "U+1E954", "U+1E955", "U+1E956", "U+1E957", "U+1E958", "U+1E959",
     "U+1F100", "U+1F101", "U+1F102", "U+1F103", "U+1F104", "U+1F105",
     "U+1F106", "U+1F107", "U+1F108", "U+1F109", "U+1F10A"}

\* Unicode 13.0 added the digits of Dives Akuru and the segmented digits.
DigitsAdded13 ==
    {"U+11950", "U+11951", "U+11952", "U+11953", "U+11954", "U+11955",
     "U+11956", "U+11957", "U+11958", "U+11959", "U+1FBF0", "U+1FBF1",
     "U+1FBF2", "U+1FBF3", "U+1FBF4", "U+1FBF5", "U+1FBF6", "U+1FBF7",
     "U+1FBF8", "U+1FBF9"}

\* Unicode 14.0 added the digits of Tangsa.
DigitsAdded14 ==
    {"U+16AC0", "U+16AC1", "U+16AC2", "U+16AC3", "U+16AC4", "U+16AC5",
     "U+16AC6", "U+16AC7", "U+16AC8", "U+16AC9"}

\* Unicode 15.0 added the digits of Kawi and of Nag Mundari; 15.1 added none.
DigitsAdded15 ==
    {"U+11F50", "U+11F51", "U+11F52", "U+11F53", "U+11F54", "U+11F55",
     "U+11F56", "U+11F57", "U+11F58", "U+11F59", "U+1E4F0", "U+1E4F1",
     "U+1E4F2", "U+1E4F3", "U+1E4F4", "U+1E4F5", "U+1E4F6", "U+1E4F7",
     "U+1E4F8", "U+1E4F9"}

\* Unicode 16.0 added the digits of Garay, Myanmar Extended-C, Sunuwar,
\* Gurung Khema and Kirat Rai, the outlined digits and the digits of Ol Onal.
DigitsAdded16 ==
    {"U+10D40", "U+10D41", "U+10D42", "U+10D43", "U+10D44", "U+10D45",
     "U+10D46", "U+10D47", "U+10D48", "U+10D49", "U+116D0", "U+116D1",
     "U+116D2", "U+116D3", "U+116D4", "U+116D5", "U+116D6", "U+116D7",
     "U+116D8", "U+116D9", "U+116DA", "U+116DB", "U+116DC", "U+116DD",
     "U+116DE", "U+116DF", "U+116E0", "U+116E1", "U+116E2", "U+116E3",
     "U+11BF0", "U+11BF1", "U+11BF2", "U+11BF3", "U+11BF4", "U+11BF5",
     "U+11BF6", "U+11BF7", "U+11BF8", "U+11BF9", "U+16130", "U+16131",
     "U+16132", "U+16133", "U+16134", "U+16135", "U+16136", "U+16137",
     "U+16138", "U+16139", "U+16D70", "U+16D71", "U+16D72", "U+16D73",
     "U+16D74", "U+16D75", "U+16D76", "U+16D77", "U+16D78", "U+16D79",
     "U+1CCF0", "U+1CCF1", "U+1CCF2", "U+1CCF3", "U+1CCF4", "U+1CCF5",
     "U+1CCF6", "U+1CCF7", "U+1CCF8", "U+1CCF9", "U+1E5F1", "U+1E5F2",
     "U+1E5F3", "U+1E5F4", "U+1E5F5", "U+1E5F6", "U+1E5F7", "U+1E5F8",
     "U+1E5F9", "U+1E5FA"}

\* The characters outside ASCII for which str.isdigit() holds, by version.
UnicodeDigits ==
    [version \in UnicodeVersions |->
        UnicodeDigits12
        \cup (IF version \in Since13 THEN DigitsAdded13 ELSE {})
        \cup (IF version \in Since14 THEN DigitsAdded14 ELSE {})
        \cup (IF version \in Since15 THEN DigitsAdded15 ELSE {})
        \cup (IF version \in Since16 THEN DigitsAdded16 ELSE {})]

\* The characters c with c.isdigit(), by version.
Digits == [version \in UnicodeVersions |-> AsciiDigits \cup UnicodeDigits[version]]

Separators == {" ", "-", "+"}

\* v.replace(" ", "").replace("-", "").replace("+", "")
clean_phone(v) == SelectSeq(v, LAMBDA c : c \notin Separators)

\* str.isdigit(): non-empty and every character a digit.
isdigit(version, s) == Len(s) > 0 /\ \A i \in 1..Len(s) : s[i] \in Digits[version]

\* The validator raises ValueError (ok = FALSE) or returns the cleaned phone.
validate_phone(version, v) ==
    LET clean == clean_phone(v) IN
    IF ~isdigit(version, clean) THEN [ok |-> FALSE, phone |-> clean]
    ELSE IF Len(clean) < MinPhoneLen \/ Len(clean) > MaxPhoneLen
         THEN [ok |-> FALSE, phone |-> clean]
         ELSE [ok |-> TRUE, phone |-> clean]

(***************************************************************************)
(* Inputs.                                                                 *)
(***************************************************************************)
PhoneA == <<"9", "8", "7", "6", "5", "4", "3", "2", "1", "0">>
PhoneADashed == <<"+", "9", "8", "7", "6", "5", "-", "4", "3", "2", "1", "0">>
PhoneB == <<"9", "1", "2", "3", "4", "5", "6", "7", "8", "0">>
PhoneShort == <<"9", "8", "7", "6", "5">>
PhoneAlpha == <<"9", "8", "7", "6", "5", "a", "3", "2", "1", "0">>

\* A phone that ends in KAWI DIGIT ZERO, a digit from Unicode 15.0 on.
PhoneKawi == <<"9", "8", "7", "6", "5", "4", "3", "2", "1", "U+11F50">>

RawPhones == {PhoneA, PhoneADashed, PhoneShort, PhoneAlpha}

\* name and email of a request, as the request model carries them after
\* validate_name and validate_email (an absent email is None).
Contacts == {[name |-> Some("Asha Rao"), email |-> None],
             [name |-> Some("Asha R"), email |-> Some("asha@x.io")]}

\* query_source of the requests: a value other than the schema's default
\* "Website", so that a lead_source taken from the default would show.
QuerySources == {"Facebook"}

InteractionTypes == {"Call", "Site Visit"}

FollowUpDates == {None, Some("2024-06-01"), Some("2024-06-08")}

Today == "2024-05-20"

\* user_id of the authenticated staff members (get_current_user).
StaffIds == {7}

\* The listings table when the service starts: empty, every listing is made
\* by create_listing.
ListingRows == {}

\* The listing an admin may create: create_listing without a brochure file
\* (brochure_url None) and with one (the public URL of the upload).  Its
\* listing_id is the column's uuid4 default, a fresh value.
NewListingRows ==
    {[listing_id |-> Some("L4"), title |-> "New Tower", brochure_url |-> url]
     : url \in {None, Some("https://storage/brochures/l4.pdf")}}

\* A listing_id that is the id of no listing, before or after.
UnknownListingId == Some("L3")

VALID_LEAD_STATUSES == {"New", "Contacted", "Interested", "Site Visit Scheduled",
                        "Converted", "Lost"}

(***************************************************************************)
(* Rows.                                                                   *)
(***************************************************************************)
UserColumns == {"user_id", "phone", "name", "email", "lead_source", "lead_status",
                "lead_temperature", "last_contact_date", "next_action_date"}

\* tables.User(...): the columns the constructor is not given stay NULL.
User(id, phone, name, email, source, status, temperature) ==
    [user_id |-> id, phone |-> phone, name |-> name, email |-> email,
     lead_source |-> source, lead_status |-> status, lead_temperature |-> temperature,
     last_contact_date |-> None, next_action_date |-> None]

\* "no row", where .first() returns None: the user_id no row has.  The other
\* fields are read by no handler.
NoUser == User(0, <<>>, None, None, "", "", "")

\* uuid4 primary keys: a fresh value per inserting request.
NewUserId(r) == 10 + r

\* Leads already in the table when the service starts: the statuses Converted
\* and Lost of VALID_LEAD_STATUSES and the temperature Cold are written by no
\* handler, so leads that carry them were in the table before.  One of them
\* has a follow-up date from an earlier activity log.
SeedProfiles == {<<"New", "Cold", None>>,
                 <<"Converted", "Warm", Some("2024-06-01")>>,
                 <<"Lost", "Hot", None>>}

SeedStores ==
    {{}} \cup
    {{[User(1, PhoneA, Some("Asha Rao"), Some("old@x.io"), "Referral", p[1], p[2])
          EXCEPT !.next_action_date = p[3]],
      User(2, PhoneB, Some("Bina"), None, "Walk-in", "Contacted", "Warm")}
     : p \in SeedProfiles}

(***************************************************************************)
(* State.                                                                  *)
(***************************************************************************)
VARIABLES
    users,      \* committed rows of table users
    queries,    \* committed rows of table property_queries
    logs,       \* committed rows of table call_logs
    listings,   \* committed rows of table listings
    pc,         \* per request: the round trip it is about to make
    req,        \* per request: the request model and the session's objects
    result,     \* per request: HTTP status of the response, 0 before it
    undone,     \* requests whose rollback discarded a pending lead write
    detail,     \* per request: the detail of its 404 response, None otherwise
    unicode     \* the Unicode versions the interpreter of the service may have

vars == <<users, queries, logs, listings, pc, req, result, undone, detail, unicode>>

\* A request that has not started or has been answered holds nothing.
IdleReq ==
    [phone |-> <<>>, name |-> None, email |-> None, listing_id |-> None,
     query_source |-> "", interaction_type |-> "", next_follow_up_date |-> None,
     caller_id |-> 0,
     user |-> NoUser, inserted |-> FALSE, dirty |-> {},
     listing_title |-> ""]

Init ==
    /\ users \in SeedStores
    /\ queries = {}
    /\ logs = {}
    /\ listings = ListingRows
    /\ pc = [r \in Requests |-> "idle"]
    /\ req = [r \in Requests |-> IdleReq]
    /\ result = [r \in Requests |-> 0]
    /\ undone = {}
    /\ detail = [r \in Requests |-> None]
    /\ unicode = UnicodeVersions

\* The interpreter is the same from start to end, and which one it is shows
\* only in the answers of validate_phone: unicode starts as UnicodeVersions
\* and every validation keeps the versions that give its answer.
\* Validated is validate_phone on the phones of the requests, by version,
\* and Validations(raw) are the answers it may give for raw.
Validated ==
    [version \in UnicodeVersions |->
        [raw \in RawPhones \cup {PhoneKawi} |-> validate_phone(version, raw)]]

Validations(raw) == {Validated[version][raw] : version \in unicode}

VersionsGiving(raw, v) == {version \in unicode : Validated[version][raw] = v}

InFlight(r) == pc[r] \notin {"idle", "done"}

\* Requests are numbered in the order they arrive.
CanStart(r) == pc[r] = "idle" /\ \A q \in 1..(r - 1) : pc[q] # "idle"

\* The response is sent: the session is closed and its objects are dropped.
\* An error response follows db.rollback(), which discards the session's new
\* or merged User object when it holds one.
Reply(r, status, text) ==
    /\ pc' = [pc EXCEPT ![r] = "done"]
    /\ req' = [req EXCEPT ![r] = IdleReq]
    /\ result' = [result EXCEPT ![r] = status]
    /\ undone' = IF status # 200 /\ req[r].user # NoUser THEN undone \cup {r} ELSE undone
    /\ detail' = [detail EXCEPT ![r] = text]

Respond(r, status) == Reply(r, status, None)

\* raise HTTPException(status_code=404, detail=text)
NotFound(r, text) == Reply(r, 404, Some(text))

(***************************************************************************)
(* The database.                                                           *)
(***************************************************************************)
\* db.query(tables.User).filter(tables.User.phone == phone).first()
UserByPhone(phone) ==
    IF \E u \in users : u.phone = phone
    THEN CHOOSE u \in users : u.phone = phone
    ELSE NoUser

\* "no row" of listings, where .first() returns None.
NoListing == [listing_id |-> None, title |-> "", brochure_url |-> None]

\* db.query(tables.Listing).filter(tables.Listing.listing_id == id).first()
ListingById(id) ==
    IF \E l \in listings : l.listing_id = id
    THEN CHOOSE l \in listings : l.listing_id = id
    ELSE NoListing

\* The listing ids a client can name: those of the listings in the table,
\* which GET /listings shows, and one that was never a listing's id (a uuid4
\* a listing will get later is not known to anyone before).
BrochureListingIds == {l.listing_id : l \in listings} \cup {UnknownListingId}

QueryListingIds == BrochureListingIds \cup {None}

\* Mutant: the phone column without its unique constraint.
PhoneTakenNotUnique(phone) == FALSE

\* users.phone is unique: an INSERT meets a committed row with the same phone.
PhoneTaken(phone) == \E u \in users : u.phone = phone

\* An INSERT waits while another open transaction holds an uncommitted row
\* with the same unique key.
InsertBlocked(r) ==
    \E q \in Requests \ {r} :
        InFlight(q) /\ req[q].inserted /\ req[q].user.phone = req[r].user.phone

\* The columns of a loaded row the session has changed: only these are in the
\* UPDATE the flush emits.
Changed(old, new) == {c \in UserColumns : old[c] # new[c]}

\* UPDATE users SET <dirty columns> WHERE user_id = local.user_id
UpdateUser(table, local, dirty) ==
    {IF u.user_id = local.user_id
     THEN [c \in UserColumns |-> IF c \in dirty THEN local[c] ELSE u[c]]
     ELSE u : u \in table}

\* The session's pending user write at commit: the flushed INSERT becomes
\* visible, or the UPDATE of the loaded row is applied.
CommitUser(r) ==
    IF req[r].inserted
    THEN users \cup {req[r].user}
    ELSE UpdateUser(users, req[r].user, req[r].dirty)

(***************************************************************************)
(* POST /leads/brochure: download_brochure.                                *)
(***************************************************************************)
\* The "if user:" branch: merge name and email, upgrade temperature and status.
BrochureMerge(user, request) ==
    [user EXCEPT
        !.name = IF Truthy(request.name) /\ request.name # user.name
                 THEN request.name ELSE @,
        !.email = IF Truthy(request.email) /\ request.email # user.email
                  THEN request.email ELSE @,
        !.lead_temperature = "Hot",
        !.lead_status = IF @ = "New" THEN "Interested" ELSE @]

\* The "else:" branch: tables.User(...) for a phone with no row.
BrochureNewUser(r, request) ==
    User(NewUserId(r), request.phone, request.name, request.email,
         "Brochure Download", "New", "Hot")

\* Mutant: the brochure query does not take the listing's title.
BrochureQueryGeneral(r, request) ==
    [query_id |-> r, user_id |-> request.user.user_id, phone |-> request.phone,
     listing_id |-> request.listing_id, property_name |-> "General Inquiry",
     name |-> request.name, source |-> "Brochure Download", query_status |-> "New"]

\* Mutant: the query of a new lead is built before the flush has given the
\* lead its user_id.
BrochureQueryBeforeFlush(r, request) ==
    [query_id |-> r,
     user_id |-> IF request.inserted THEN NoUser.user_id ELSE request.user.user_id,
     phone |-> request.phone,
     listing_id |-> request.listing_id, property_name |-> request.listing_title,
     name |-> request.name, source |-> "Brochure Download", query_status |-> "New"]

\* tables.PropertyQuery(...) of a brochure download.
BrochureQuery(r, request) ==
    [query_id |-> r, user_id |-> request.user.user_id, phone |-> request.phone,
     listing_id |-> request.listing_id, property_name |-> request.listing_title,
     name |-> request.name, source |-> "Brochure Download", query_status |-> "New"]

\* Mutant: a listing without a brochure_url is served like any other.
BrochureFindListingAnyUrl(r, request) ==
    LET listing == ListingById(request.listing_id) IN
    IF listing.listing_id = None
    THEN NotFound(r, "Listing not found")
    ELSE /\ pc' = [pc EXCEPT ![r] = "b_user"]
         /\ req' = [req EXCEPT ![r] = [request EXCEPT !.listing_title = listing.title]]
         /\ UNCHANGED <<result, undone, detail>>

\* A. Validate listing and brochure availability: 404 without either.
BrochureFindListing(r, request) ==
    LET listing == ListingById(request.listing_id) IN
    IF listing.listing_id = None
    THEN NotFound(r, "Listing not found")
    ELSE IF ~Truthy(listing.brochure_url)
    THEN NotFound(r, "No brochure available for this property")
    ELSE /\ pc' = [pc EXCEPT ![r] = "b_user"]
         /\ req' = [req EXCEPT ![r] = [request EXCEPT !.listing_title = listing.title]]
         /\ UNCHANGED <<result, undone, detail>>

\* The request body is parsed into BrochureRequest (a validation error is
\* answered 422 before the handler runs); then step A.
DownloadBrochure(r, raw, c, lid) ==
    /\ CanStart(r)
    /\ \E v \in Validations(raw) :
          /\ unicode' = VersionsGiving(raw, v)
          /\ IF ~v.ok
             THEN Respond(r, 422)
             ELSE BrochureFindListing(r, [IdleReq EXCEPT !.phone = v.phone, !.name = c.name,
                                                         !.email = c.email, !.listing_id = lid])
    /\ UNCHANGED <<users, queries, logs, listings>>

\* The SELECT of step A fails: except SQLAlchemyError, 500.
DownloadBrochureFails(r, raw) ==
    /\ CanStart(r)
    /\ \E v \in Validations(raw) : v.ok /\ unicode' = VersionsGiving(raw, v)
    /\ Respond(r, 500)
    /\ UNCHANGED <<users, queries, logs, listings>>

\* PhoneKawi is sent for the unknown listing only: whether it is accepted
\* shows in the answer, and no lead is made for it.
BeginBrochure(r) ==
    /\ CanStart(r)
    /\ \/ \E raw \in RawPhones, c \in Contacts, lid \in BrochureListingIds :
             DownloadBrochure(r, raw, c, lid) \/ DownloadBrochureFails(r, raw)
       \/ \E c \in Contacts : DownloadBrochure(r, PhoneKawi, c, UnknownListingId)

\* B. Check or create the lead.
BrochureFindUser(r) ==
    /\ pc[r] = "b_user"
    /\ LET user == UserByPhone(req[r].phone) IN
       IF user # NoUser
       THEN /\ req' = [req EXCEPT ![r].user = BrochureMerge(user, req[r]),
                                  ![r].dirty = Changed(user, BrochureMerge(user, req[r]))]
            /\ pc' = [pc EXCEPT ![r] = "b_commit"]
       ELSE /\ req' = [req EXCEPT ![r].user = BrochureNewUser(r, req[r])]
            /\ pc' = [pc EXCEPT ![r] = "b_flush"]
    /\ UNCHANGED <<users, queries, logs, listings, result, undone, detail, unicode>>

\* Mutant: db.commit() in place of db.flush(): the new lead is committed
\* before the query is written.
BrochureFlushCommits(r) ==
    /\ pc[r] = "b_flush"
    /\ ~InsertBlocked(r)
    /\ IF PhoneTaken(req[r].user.phone)
       THEN Respond(r, 409) /\ UNCHANGED users
       ELSE /\ req' = [req EXCEPT ![r].inserted = TRUE]
            /\ pc' = [pc EXCEPT ![r] = "b_commit"]
            /\ users' = users \cup {req[r].user}
            /\ UNCHANGED <<result, undone, detail>>
    /\ UNCHANGED <<queries, logs, listings, unicode>>

\* db.add(user); db.flush(): the INSERT, which a committed row with the same
\* phone refuses (IntegrityError: rollback, 409).
BrochureFlush(r) ==
    /\ pc[r] = "b_flush"
    /\ ~InsertBlocked(r)
    /\ IF PhoneTaken(req[r].user.phone)
       THEN Respond(r, 409)
       ELSE /\ req' = [req EXCEPT ![r].inserted = TRUE]
            /\ pc' = [pc EXCEPT ![r] = "b_commit"]
            /\ UNCHANGED <<result, undone, detail>>
    /\ UNCHANGED <<users, queries, logs, listings, unicode>>

\* Mutant: the brochure query replaces the lead's earlier queries.
BrochureCommitReplaces(r) ==
    /\ pc[r] = "b_commit"
    /\ users' = CommitUser(r)
    /\ queries' = {q \in queries : q.user_id # req[r].user.user_id}
                      \cup {BrochureQuery(r, req[r])}
    /\ pc' = [pc EXCEPT ![r] = "b_response"]
    /\ req' = [req EXCEPT ![r] = IdleReq]
    /\ UNCHANGED <<logs, listings, result, undone, detail, unicode>>

\* C. db.add(new_query); db.commit(): one commit for the lead and the query.
\* The commit expires the session's objects.
BrochureCommit(r) ==
    /\ pc[r] = "b_commit"
    /\ users' = CommitUser(r)
    /\ queries' = queries \cup {BrochureQuery(r, req[r])}
    /\ pc' = [pc EXCEPT ![r] = "b_response"]
    /\ req' = [req EXCEPT ![r] = IdleReq]
    /\ UNCHANGED <<logs, listings, result, undone, detail, unicode>>

\* D. The response reads listing.brochure_url, which the commit has expired:
\* one more SELECT of the listing.
BrochureRespond(r) ==
    /\ pc[r] = "b_response"
    /\ Respond(r, 200)
    /\ UNCHANGED <<users, queries, logs, listings, unicode>>

\* except SQLAlchemyError: a round trip fails; db.rollback() and 500.
BrochureDbError(r) ==
    /\ pc[r] \in {"b_user", "b_flush", "b_commit", "b_response"}
    /\ Respond(r, 500)
    /\ UNCHANGED <<users, queries, logs, listings, unicode>>

(***************************************************************************)
(* POST /leads/query: create_query.                                        *)
(***************************************************************************)
\* Mutant: the merge also overwrites lead_source with the request's source.
QueryMergeOverwritesSource(user, request) ==
    [user EXCEPT
        !.name = IF Truthy(request.name) /\ request.name # user.name
                 THEN request.name ELSE @,
        !.email = IF Truthy(request.email) /\ request.email # user.email
                  THEN request.email ELSE @,
        !.lead_source = request.query_source]

\* Mutant: the merge sets the temperature of a new query lead, Warm.
QueryMergeSetsWarm(user, request) ==
    [user EXCEPT
        !.name = IF Truthy(request.name) /\ request.name # user.name
                 THEN request.name ELSE @,
        !.email = IF Truthy(request.email) /\ request.email # user.email
                  THEN request.email ELSE @,
        !.lead_temperature = "Warm"]

\* Mutant: the email is assigned whatever the request carries, None too.
QueryMergeAssignsEmail(user, request) ==
    [user EXCEPT
        !.name = IF Truthy(request.name) /\ request.name # user.name
                 THEN request.name ELSE @,
        !.email = request.email]

\* The "if user:" branch: merge name and email only.
QueryMerge(user, request) ==
    [user EXCEPT
        !.name = IF Truthy(request.name) /\ request.name # user.name
                 THEN request.name ELSE @,
        !.email = IF Truthy(request.email) /\ request.email # user.email
                  THEN request.email ELSE @]

\* Mutant: the new lead takes the schema's default source, not the request's.
QueryNewUserDefaultSource(r, request) ==
    User(NewUserId(r), request.phone, request.name, request.email,
         "Website", "New", "Warm")

\* The "else:" branch: tables.User(...) for a phone with no row.
QueryNewUser(r, request) ==
    User(NewUserId(r), request.phone, request.name, request.email,
         request.query_source, "New", "Warm")

\* tables.PropertyQuery(...) of a contact form (message, budget, property_type
\* and user_type are copied from the request and not modelled).
QueryQuery(r, request) ==
    [query_id |-> r, user_id |-> request.user.user_id, phone |-> request.phone,
     listing_id |-> request.listing_id, property_name |-> request.listing_title,
     name |-> request.name, source |-> request.query_source, query_status |-> "New"]

\* B. runs a SELECT only when the request names a listing.
QueryAfterUser(request) == IF request.listing_id # None THEN "q_listing" ELSE "q_commit"

\* A. Check or create the lead.
QueryFindUser(r, request) ==
    LET user == UserByPhone(request.phone) IN
    IF user # NoUser
    THEN /\ req' = [req EXCEPT ![r] =
                [request EXCEPT !.user = QueryMerge(user, request),
                                !.dirty = Changed(user, QueryMerge(user, request))]]
         /\ pc' = [pc EXCEPT ![r] = QueryAfterUser(request)]
    ELSE /\ req' = [req EXCEPT ![r] = [request EXCEPT !.user = QueryNewUser(r, request)]]
         /\ pc' = [pc EXCEPT ![r] = "q_flush"]

\* The request body is parsed into QueryCreate (a validation error is answered
\* 422 before the handler runs); then step A.  listing_title starts as
\* "General Inquiry".
CreateQuery(r, raw, c, lid, src) ==
    /\ CanStart(r)
    /\ \E v \in Validations(raw) :
          /\ unicode' = VersionsGiving(raw, v)
          /\ IF ~v.ok
             THEN Respond(r, 422)
             ELSE /\ QueryFindUser(r, [IdleReq EXCEPT !.phone = v.phone, !.name = c.name,
                                                      !.email = c.email, !.listing_id = lid,
                                                      !.query_source = src,
                                                      !.listing_title = "General Inquiry"])
                  /\ UNCHANGED <<result, undone, detail>>
    /\ UNCHANGED <<users, queries, logs, listings>>

\* The SELECT of step A fails: except SQLAlchemyError, 500.
CreateQueryFails(r, raw) ==
    /\ CanStart(r)
    /\ \E v \in Validations(raw) : v.ok /\ unicode' = VersionsGiving(raw, v)
    /\ Respond(r, 500)
    /\ UNCHANGED <<users, queries, logs, listings>>

BeginQuery(r) ==
    /\ CanStart(r)
    /\ \E raw \in RawPhones, c \in Contacts, lid \in QueryListingIds, src \in QuerySources :
        CreateQuery(r, raw, c, lid, src) \/ CreateQueryFails(r, raw)

\* db.add(user); db.flush(): the INSERT, which a committed row with the same
\* phone refuses (IntegrityError: rollback, 409).
QueryFlush(r) ==
    /\ pc[r] = "q_flush"
    /\ ~InsertBlocked(r)
    /\ IF PhoneTaken(req[r].user.phone)
       THEN Respond(r, 409)
       ELSE /\ req' = [req EXCEPT ![r].inserted = TRUE]
            /\ pc' = [pc EXCEPT ![r] = QueryAfterUser(req[r])]
            /\ UNCHANGED <<result, undone, detail>>
    /\ UNCHANGED <<users, queries, logs, listings, unicode>>

\* B. Resolve the listing name; an unknown listing_id keeps "General Inquiry".
QueryFindListing(r) ==
    /\ pc[r] = "q_listing"
    /\ LET listing == ListingById(req[r].listing_id) IN
       req' = [req EXCEPT ![r].listing_title =
                  IF listing.listing_id # None THEN listing.title ELSE @]
    /\ pc' = [pc EXCEPT ![r] = "q_commit"]
    /\ UNCHANGED <<users, queries, logs, listings, result, undone, detail, unicode>>

\* C. db.add(new_query); db.commit().  property_queries.listing_id references
\* listings: a listing_id with no listing row is an IntegrityError (rollback,
\* 409).  After the commit the handler touches the database no more.
QueryCommit(r) ==
    /\ pc[r] = "q_commit"
    /\ IF req[r].listing_id # None /\ ListingById(req[r].listing_id).listing_id = None
       THEN /\ Respond(r, 409)
            /\ UNCHANGED <<users, queries>>
       ELSE /\ users' = CommitUser(r)
            /\ queries' = queries \cup {QueryQuery(r, req[r])}
            /\ Respond(r, 200)
    /\ UNCHANGED <<logs, listings, unicode>>

\* except SQLAlchemyError: a round trip fails; db.rollback() and 500.
QueryDbError(r) ==
    /\ pc[r] \in {"q_flush", "q_listing", "q_commit"}
    /\ Respond(r, 500)
    /\ UNCHANGED <<users, queries, logs, listings, unicode>>

(***************************************************************************)
(* POST /logs/: create_log, for an authenticated staff member.             *)
(***************************************************************************)
\* Mutant: a New lead becomes Contacted whatever the interaction type.
LogUpdateIgnoresType(user, request) ==
    [user EXCEPT
        !.last_contact_date = Some(Today),
        !.next_action_date = IF request.next_follow_up_date # None
                             THEN request.next_follow_up_date ELSE @,
        !.lead_status = IF @ = "New" THEN "Contacted" ELSE @]

\* 3. Update the lead's main profile.
LogUpdate(user, request) ==
    [user EXCEPT
        !.last_contact_date = Some(Today),
        !.next_action_date = IF request.next_follow_up_date # None
                             THEN request.next_follow_up_date ELSE @,
        !.lead_status = IF request.interaction_type = "Site Visit" /\ @ = "New"
                        THEN "Site Visit Scheduled"
                        ELSE IF @ = "New" THEN "Contacted" ELSE @]

\* Mutant: the log names the lead as its caller.
CallLogCallerIsLead(r, request) ==
    [call_id |-> r, phone |-> request.phone, user_id |-> request.user.user_id,
     caller_id |-> request.user.user_id, interaction_type |-> request.interaction_type,
     next_follow_up_date |-> request.next_follow_up_date, contact_date |-> Today]

\* 2. tables.CallLog(...); contact_date is the server default current_date.
CallLog(r, request) ==
    [call_id |-> r, phone |-> request.phone, user_id |-> request.user.user_id,
     caller_id |-> request.caller_id, interaction_type |-> request.interaction_type,
     next_follow_up_date |-> request.next_follow_up_date, contact_date |-> Today]

\* Mutant: the log goes on without a lead.
LogFindUserProceeds(r, request) ==
    LET user == UserByPhone(request.phone) IN
    /\ req' = [req EXCEPT ![r] =
           [request EXCEPT !.user = LogUpdate(user, request),
                           !.dirty = Changed(user, LogUpdate(user, request))
                                     \cup {"last_contact_date"}]]
    /\ pc' = [pc EXCEPT ![r] = "l_commit"]
    /\ UNCHANGED <<result, undone, detail>>

\* 1. Find the lead, or 404.  last_contact_date is assigned the SQL expression
\* current_date, so the UPDATE always carries it.
LogFindUser(r, request) ==
    LET user == UserByPhone(request.phone) IN
    IF user = NoUser
    THEN NotFound(r, "User with this phone not found. Create lead first.")
    ELSE /\ req' = [req EXCEPT ![r] =
                [request EXCEPT !.user = LogUpdate(user, request),
                                !.dirty = Changed(user, LogUpdate(user, request))
                                          \cup {"last_contact_date"}]]
         /\ pc' = [pc EXCEPT ![r] = "l_commit"]
         /\ UNCHANGED <<result, undone, detail>>

\* The request body is parsed into CallLogCreate, which validates no field;
\* then step 1.
CreateLog(r, raw, it, fu, staff) ==
    /\ CanStart(r)
    /\ LogFindUser(r, [IdleReq EXCEPT !.phone = raw, !.interaction_type = it,
                                      !.next_follow_up_date = fu,
                                      !.caller_id = staff])
    /\ UNCHANGED <<users, queries, logs, listings, unicode>>

\* The SELECT of step 1 fails: get_db rolls back and the answer is 500.
CreateLogFails(r) ==
    /\ CanStart(r)
    /\ Respond(r, 500)
    /\ UNCHANGED <<users, queries, logs, listings, unicode>>

BeginLog(r) ==
    /\ CanStart(r)
    /\ \/ \E raw \in RawPhones, it \in InteractionTypes, fu \in FollowUpDates,
             staff \in StaffIds : CreateLog(r, raw, it, fu, staff)
       \/ CreateLogFails(r)

\* db.commit(): the INSERT of the log and the UPDATE of the lead.  The commit
\* expires the session's objects.
LogCommit(r) ==
    /\ pc[r] = "l_commit"
    /\ users' = CommitUser(r)
    /\ logs' = logs \cup {CallLog(r, req[r])}
    /\ pc' = [pc EXCEPT ![r] = "l_refresh"]
    /\ req' = [req EXCEPT ![r] = IdleReq]
    /\ UNCHANGED <<queries, listings, result, undone, detail, unicode>>

\* db.refresh(new_log): a SELECT of the committed log; then the response.
LogRefresh(r) ==
    /\ pc[r] = "l_refresh"
    /\ Respond(r, 200)
    /\ UNCHANGED <<users, queries, logs, listings, unicode>>

\* A round trip fails: the exception leaves the handler, get_db rolls the
\* session back and closes it, and the request is answered 500.
LogDbError(r) ==
    /\ pc[r] \in {"l_commit", "l_refresh"}
    /\ Respond(r, 500)
    /\ UNCHANGED <<users, queries, logs, listings, unicode>>

(***************************************************************************)
(* POST /listings/: create_listing, for an authenticated admin.            *)
(***************************************************************************)
\* db.add(new_listing); db.commit(): one INSERT into listings, in a session
\* of its own.  Nothing else of the store is read or written.
create_listing ==
    /\ \E row \in NewListingRows :
          /\ row.listing_id \notin {l.listing_id : l \in listings}
          /\ listings' = listings \cup {row}
    /\ UNCHANGED <<users, queries, logs, pc, req, result, undone, detail, unicode>>

(***************************************************************************)
(* Specifications.                                                         *)
(***************************************************************************)
Start(r) == BeginBrochure(r) \/ BeginQuery(r) \/ BeginLog(r)

Step(r) ==
    \/ BrochureFindUser(r) \/ BrochureFlush(r)
    \/ BrochureCommit(r) \/ BrochureRespond(r) \/ BrochureDbError(r)
    \/ QueryFlush(r) \/ QueryFindListing(r)
    \/ QueryCommit(r) \/ QueryDbError(r)
    \/ LogCommit(r) \/ LogRefresh(r) \/ LogDbError(r)

\* Requests arrive at any time and interleave between round trips.
Next ==
    \/ \E r \in Requests : Start(r) \/ Step(r)
    \/ create_listing

Spec == Init /\ [][Next]_vars

(***************************************************************************)
(* Properties.                                                             *)
(***************************************************************************)
UserIds(table) == {u.user_id : u \in table}

UserById(table, id) == CHOOSE u \in table : u.user_id = id

Rank(temperature) ==
    CASE temperature = "Cold" -> 0
      [] temperature = "Warm" -> 1
      [] temperature = "Hot" -> 2

\* Request r commits a brochure download or a contact form in this step.
CommitsQuery(r) ==
    /\ pc[r] \in {"b_commit", "q_commit"}
    /\ \E q \in queries' \ queries : q.query_id = r

\* Request r commits an activity log in this step.
CommitsLog(r) ==
    /\ pc[r] = "l_commit"
    /\ \E l \in logs' \ logs : l.call_id = r

\* The committed store holds a row written by request r.
Written(r) ==
    \/ \E q \in queries : q.query_id = r
    \/ \E l \in logs : l.call_id = r
    \/ \E u \in users : u.user_id = NewUserId(r)

\* The committed store holds the Interaction of request r.
Recorded(r) ==
    \/ \E q \in queries : q.query_id = r
    \/ \E l \in logs : l.call_id = r

UniquePhones == \A u1, u2 \in users : u1.phone = u2.phone => u1 = u2

\* C1: no two Lead rows ever have the same phone, and a brochure request or
\* query submission that commits for a phone that already has a Lead adds no
\* Lead row and links its Interaction to that Lead's id.
C1_OneLeadPerPhone ==
    /\ []UniquePhones
    /\ [][\A r \in Requests :
            CommitsQuery(r) /\ UserByPhone(req[r].phone) # NoUser =>
                /\ UserIds(users') = UserIds(users)
                /\ \A q \in queries' \ queries :
                       q.user_id = UserByPhone(req[r].phone).user_id]_vars

\* A lead created by the first request is reused by the second: two
\* Interactions, one Lead.
C1_Witness ==
    \E q1, q2 \in queries :
        /\ q1.query_id # q2.query_id
        /\ q1.user_id = q2.user_id
        /\ q1.user_id = NewUserId(q1.query_id)
        /\ users = {UserById(users, q1.user_id)}

\* C2 as claimed: a request answered with an error has left no row of its own
\* in the committed store, and a request answered 200 has its Interaction there.
C2_AsClaimed ==
    \A r \in Requests :
        /\ result[r] \notin {0, 200} => ~Written(r)
        /\ result[r] = 200 => Recorded(r)

\* C2 amended: the Lead write and the Interaction of an operation are committed
\* in one step (a step that changes a Lead or adds a Lead also adds exactly that
\* operation's Interaction, and nothing else changes the ledger); an operation
\* that fails at any step up to and including its commit leaves the committed
\* store as it was, with no row of its own; an operation answered 200 has its
\* Interaction committed.
C2_Atomic ==
    /\ [][/\ (users' # users \/ queries' # queries \/ logs' # logs) =>
                \E r \in Requests :
                    /\ CommitsQuery(r) \/ CommitsLog(r)
                    /\ Cardinality(queries') + Cardinality(logs')
                         = Cardinality(queries) + Cardinality(logs) + 1
                    /\ queries \subseteq queries' /\ logs \subseteq logs'
                    /\ \A u \in users' \ users : u.user_id = req[r].user.user_id
          /\ \A r \in Requests :
                (pc[r] \notin {"b_response", "l_refresh"}
                   /\ result[r] = 0 /\ result'[r] \notin {0, 200}) =>
                    /\ UNCHANGED <<users, queries, logs>>
                    /\ ~Written(r)']_vars
    /\ [](\A r \in Requests : result[r] = 200 => Recorded(r))

\* An operation failed after its Lead insert or merge had begun, and the
\* committed store holds nothing of it.
C2_Witness ==
    \E r \in undone : result[r] = 500 /\ ~Written(r) /\ users = {}

\* C3 as claimed: an INSERT refused because the phone was committed meanwhile
\* is not answered with a conflict: the request goes on as a merge.
C3_AsClaimed ==
    [][\A r \in Requests :
          (pc[r] \in {"b_flush", "q_flush"} /\ UserByPhone(req[r].phone) # NoUser) =>
              result'[r] # 409]_vars

\* C4: a step never changes the lead_source of a Lead, and never removes a Lead.
C4_SourceImmutable ==
    [][\A u \in users :
          \E v \in users' : v.user_id = u.user_id /\ v.lead_source = u.lead_source]_vars

\* A Lead has an Interaction whose source differs from its lead_source.
C4_Witness ==
    \E u \in users, q \in queries :
        q.user_id = u.user_id /\ q.source # u.lead_source /\ u.lead_source \in QuerySources

\* C5: no step lowers the lead_temperature of a Lead (Cold < Warm < Hot).
C5_TemperatureMonotone ==
    [][\A u \in users :
          \E v \in users' :
              /\ v.user_id = u.user_id
              /\ Rank(v.lead_temperature) >= Rank(u.lead_temperature)]_vars

\* A Lead created Warm by a query was raised to Hot and then touched again.
C5_Witness ==
    \E u \in users :
        /\ u.lead_source \in QuerySources
        /\ u.lead_temperature = "Hot"
        /\ \E q \in queries : q.user_id = u.user_id /\ q.source = "Brochure Download"

\* C6 as claimed: no step changes the lead_status of a Lead whose committed
\* status is not New.
C6_AsClaimed ==
    [][\A u \in users :
          u.lead_status # "New" =>
              \E v \in users' : v.user_id = u.user_id /\ v.lead_status = u.lead_status]_vars

\* C7: a Lead row that a step adds is the first-touch Lead of the committing
\* request: status New, Hot with source 'Brochure Download' for a brochure
\* request, Warm with the supplied query_source for a query, name and email of
\* the request.
C7_FirstTouch ==
    [][\A v \in users' :
          v.user_id \notin UserIds(users) =>
              \E r \in Requests :
                  /\ CommitsQuery(r)
                  /\ v.user_id = NewUserId(r)
                  /\ v.phone = req[r].phone
                  /\ v.lead_status = "New"
                  /\ v.name = req[r].name
                  /\ v.email = req[r].email
                  /\ pc[r] = "b_commit" =>
                        v.lead_temperature = "Hot" /\ v.lead_source = "Brochure Download"
                  /\ pc[r] = "q_commit" =>
                        v.lead_temperature = "Warm" /\ v.lead_source = req[r].query_source]_vars

\* A query with source Facebook has created a Lead.
C7_Witness ==
    \E u \in users, q \in queries :
        /\ u.user_id = NewUserId(q.query_id)
        /\ q.user_id = u.user_id
        /\ q.source = "Facebook"
        /\ u.lead_source = "Facebook"
        /\ u.lead_temperature = "Warm"

\* C8 as claimed: the Lead a brochure request creates is committed with status
\* Interested and temperature Hot.
C8_AsClaimed ==
    [][\A r \in Requests :
          (pc[r] = "b_commit" /\ req[r].inserted /\ CommitsQuery(r)) =>
              \E u \in users' :
                  /\ u.user_id = NewUserId(r)
                  /\ u.lead_status = "Interested"
                  /\ u.lead_temperature = "Hot"]_vars

\* C9 as claimed: a brochure request that commits for an existing Lead leaves
\* it Hot, with status Interested if the Lead was New and with the status the
\* Lead had otherwise.
C9_AsClaimed ==
    [][\A r \in Requests :
          (pc[r] = "b_commit" /\ ~req[r].inserted /\ CommitsQuery(r)) =>
              LET old == UserByPhone(req[r].phone)
                  new == UserById(users', old.user_id)
              IN /\ old # NoUser
                 /\ new.lead_temperature = "Hot"
                 /\ new.lead_status =
                        IF old.lead_status = "New" THEN "Interested" ELSE old.lead_status]_vars

\* C10 as claimed: a query that commits for an existing Lead in status New
\* leaves the status New and the temperature Warm, or Hot if it was Hot.
C10_AsClaimed ==
    [][\A r \in Requests :
          (pc[r] = "q_commit" /\ ~req[r].inserted /\ CommitsQuery(r)
             /\ UserByPhone(req[r].phone).lead_status = "New") =>
              LET old == UserByPhone(req[r].phone)
                  new == UserById(users', old.user_id)
              IN /\ new.lead_status = "New"
                 /\ new.lead_temperature =
                        IF old.lead_temperature = "Hot" THEN "Hot" ELSE "Warm"]_vars

\* C11: an activity log that commits for a Lead whose status is New sets the
\* status to Site Visit Scheduled when the interaction type is Site Visit and
\* to Contacted otherwise, and leaves the temperature as it was.
C11_LogFromNew ==
    [][\A r \in Requests :
          (CommitsLog(r) /\ UserByPhone(req[r].phone).lead_status = "New") =>
              LET old == UserByPhone(req[r].phone)
                  new == UserById(users', old.user_id)
              IN /\ new.lead_status =
                        IF req[r].interaction_type = "Site Visit"
                        THEN "Site Visit Scheduled" ELSE "Contacted"
                 /\ new.lead_temperature = old.lead_temperature]_vars

\* A Cold Lead that was New has a Site Visit logged and is still Cold.
C11_Witness ==
    \E u \in users, l \in logs :
        /\ l.user_id = u.user_id
        /\ l.interaction_type = "Site Visit"
        /\ u.lead_status = "Site Visit Scheduled"
        /\ u.lead_temperature = "Cold"

\* C12: the commit of an activity log for an existing Lead adds exactly one
\* call log and no other Interaction; the call log carries that Lead's id and
\* phone and the authenticated staff member's id as caller_id; the same step
\* sets the Lead's last_contact_date to the current date and adds no Lead.
\* A log about to be answered 200 has both in the committed store.
C12_LogWrites ==
    /\ [][\A r \in Requests :
            CommitsLog(r) =>
                LET lead == UserByPhone(req[r].phone)
                    added == logs' \ logs
                IN /\ lead # NoUser
                   /\ Cardinality(added) = 1
                   /\ queries' = queries
                   /\ UserIds(users') = UserIds(users)
                   /\ \A l \in added :
                          /\ l.user_id = lead.user_id
                          /\ l.phone = lead.phone
                          /\ l.caller_id = req[r].caller_id
                          /\ l.caller_id \in StaffIds
                   /\ UserById(users', lead.user_id).last_contact_date = Some(Today)]_vars
    /\ [](\A r \in Requests :
            pc[r] = "l_refresh" =>
                \E l \in logs, u \in users :
                    /\ l.call_id = r
                    /\ u.user_id = l.user_id
                    /\ u.last_contact_date = Some(Today))

\* A log was answered 200: its call log and the dated Lead are committed.
C12_Witness ==
    \E r \in Requests, l \in logs, u \in users :
        /\ result[r] = 200
        /\ l.call_id = r
        /\ l.caller_id \in StaffIds
        /\ u.user_id = l.user_id
        /\ u.last_contact_date = Some(Today)

\* C13 as claimed: a Lead's next_action_date changes only in the commit of an
\* activity log that carries a follow-up date, and the commit of an activity
\* log that carries a follow-up date leaves the Lead with exactly that date;
\* the commit of a brochure request, of a query, or of a log without a
\* follow-up date leaves it as it was.
C13_AsClaimed ==
    /\ [][\A u \in users :
            LET new == UserById(users', u.user_id) IN
            new.next_action_date # u.next_action_date =>
                \E r \in Requests :
                    /\ CommitsLog(r)
                    /\ req[r].user.user_id = u.user_id
                    /\ req[r].next_follow_up_date # None
                    /\ new.next_action_date = req[r].next_follow_up_date]_vars
    /\ [][\A r \in Requests :
            CommitsLog(r) /\ req[r].next_follow_up_date # None =>
                UserById(users', req[r].user.user_id).next_action_date
                    = req[r].next_follow_up_date]_vars

\* C14: an activity log for a phone that no Lead has is answered 404 at once
\* and leaves the store as it was; a request answered so never writes; and the
\* commit of a log never adds a Lead, and the call log it adds belongs to a
\* Lead that was there before.
C14_LogUnknownPhone ==
    /\ [][\A r \in Requests :
            pc[r] = "idle" /\ pc'[r] # "idle" =>
                \/ /\ result'[r] = 404
                   /\ pc'[r] = "done"
                   /\ <<users', queries', logs'>> = <<users, queries, logs>>
                \/ \A raw \in RawPhones :
                      UserByPhone(raw) = NoUser =>
                          \A it \in InteractionTypes, fu \in FollowUpDates,
                             staff \in StaffIds : ~CreateLog(r, raw, it, fu, staff)]_vars
    /\ [][\A r \in Requests :
            result[r] = 404 =>
                /\ ~CommitsLog(r) /\ ~CommitsQuery(r)
                /\ pc'[r] = "done" /\ result'[r] = 404]_vars
    /\ [][\A r \in Requests :
            CommitsLog(r) =>
                /\ UserIds(users') = UserIds(users)
                /\ \A l \in logs' \ logs : l.user_id \in UserIds(users)]_vars

\* A log was answered 404 for want of a Lead, and the store is still empty.
C14_Witness ==
    \E r \in Requests :
        /\ result[r] = 404
        /\ detail[r] = Some("User with this phone not found. Create lead first.")
        /\ users = {} /\ queries = {} /\ logs = {}

\* The raw phones that validate_phone accepts, and those it rejects.
AcceptedPhones ==
    {raw \in RawPhones : \A version \in UnicodeVersions : validate_phone(version, raw).ok}

RejectedPhones ==
    {raw \in RawPhones : \A version \in UnicodeVersions : ~validate_phone(version, raw).ok}

\* C15: a brochure request with a valid phone for a listing that does not
\* exist, or that has no brochure_url, is answered 404 at once and leaves the
\* store as it was, whether or not the phone has a Lead; the request writes
\* nothing afterwards.
C15_BrochureNotFound ==
    /\ [][\A r \in Requests :
            pc[r] = "idle" /\ pc'[r] # "idle" =>
                \/ /\ result'[r] = 404
                   /\ detail'[r] \in {Some("Listing not found"),
                                      Some("No brochure available for this property")}
                   /\ pc'[r] = "done"
                   /\ <<users', queries', logs', listings'>>
                         = <<users, queries, logs, listings>>
                \/ \A lid \in BrochureListingIds :
                      (\/ ListingById(lid).listing_id = None
                       \/ ~Truthy(ListingById(lid).brochure_url)) =>
                          \A raw \in AcceptedPhones, c \in Contacts :
                              ~DownloadBrochure(r, raw, c, lid)]_vars
    /\ [][\A r \in Requests :
            pc[r] = "done" =>
                /\ ~(\E q \in queries' \ queries : q.query_id = r)
                /\ NewUserId(r) \in UserIds(users') => NewUserId(r) \in UserIds(users)]_vars

\* Brochure requests for a missing listing and for a listing without a
\* brochure were answered 404; the Lead that has the phone is as it was and
\* no Interaction was written.
C15_Witness ==
    \E r1, r2 \in Requests :
        /\ result[r1] = 404 /\ detail[r1] = Some("Listing not found")
        /\ result[r2] = 404 /\ detail[r2] = Some("No brochure available for this property")
        /\ User(1, PhoneA, Some("Asha Rao"), Some("old@x.io"), "Referral", "New", "Cold") \in users
        /\ queries = {} /\ logs = {}

\* C16: when a brochure request or a query commits for an existing Lead, the
\* stored name changes only if the request carries a name that differs from
\* the stored one, and then to that name; the stored email likewise; and a
\* stored name or email is never replaced with null.
C16_MergeNameEmail ==
    [][\A r \in Requests :
          (CommitsQuery(r) /\ ~req[r].inserted) =>
              LET old == UserByPhone(req[r].phone)
                  new == UserById(users', old.user_id)
              IN /\ old # NoUser
                 /\ new.name # old.name =>
                        /\ req[r].name # None /\ req[r].name # old.name
                        /\ new.name = req[r].name
                 /\ new.email # old.email =>
                        /\ req[r].email # None /\ req[r].email # old.email
                        /\ new.email = req[r].email
                 /\ old.name # None => new.name # None
                 /\ old.email # None => new.email # None]_vars

\* The seeded Lead took a request with another name and an email, then one
\* with its first name and no email: the name is back and the email is kept.
C16_Witness ==
    \E u \in users, q1, q2 \in queries :
        /\ u.user_id = 1
        /\ q1.user_id = 1 /\ q2.user_id = 1
        /\ q1.name = Some("Asha R") /\ q2.name = Some("Asha Rao")
        /\ u.name = Some("Asha Rao")
        /\ u.email = Some("asha@x.io")

\* The Interactions of request r in the committed store.
InteractionsOf(r) ==
    {q \in queries : q.query_id = r} \cup {l \in logs : l.call_id = r}

\* C17 as claimed: an operation answered 200 has exactly one Interaction in
\* the ledger, and an operation answered with an error has none.
C17_AsClaimed ==
    \A r \in Requests :
        /\ result[r] = 200 => Cardinality(InteractionsOf(r)) = 1
        /\ result[r] \notin {0, 200} => InteractionsOf(r) = {}

\* C17 amended: no step changes or removes a committed Interaction; a step
\* adds at most one, and only as the commit of its operation; an operation
\* answered 200 has exactly one Interaction; an operation that fails before or
\* at its commit has none; an operation whose commit succeeded has exactly
\* one, whatever it is answered.
C17_AppendOnly ==
    /\ [][/\ queries \subseteq queries' /\ logs \subseteq logs'
          /\ Cardinality(queries' \ queries) + Cardinality(logs' \ logs) <= 1
          /\ \A q \in queries' \ queries : pc[q.query_id] \in {"b_commit", "q_commit"}
          /\ \A l \in logs' \ logs : pc[l.call_id] = "l_commit"
          /\ \A r \in Requests :
                (pc[r] \notin {"b_response", "l_refresh"}
                   /\ result[r] = 0 /\ result'[r] \notin {0, 200}) =>
                    /\ queries' = queries /\ logs' = logs
                    /\ InteractionsOf(r) = {}]_vars
    /\ [](\A r \in Requests :
            /\ result[r] = 200 => Cardinality(InteractionsOf(r)) = 1
            /\ pc[r] \in {"b_response", "l_refresh"} => Cardinality(InteractionsOf(r)) = 1
            /\ result[r] \notin {0, 200} => Cardinality(InteractionsOf(r)) <= 1)

\* A query and an activity log on one Lead were both answered 200: the ledger
\* holds the Interaction of each.
C17_Witness ==
    \E r1, r2 \in Requests :
        /\ r1 # r2
        /\ result[r1] = 200 /\ result[r2] = 200
        /\ \E q \in queries, l \in logs :
               q.query_id = r1 /\ l.call_id = r2 /\ q.user_id = l.user_id

\* C18: the Interaction a brochure request or a query commits carries as
\* property_name the title the referenced listing has at that commit, or
\* General Inquiry when it references no listing; the Interaction of a brochure
\* request references a listing and carries the source Brochure Download, that
\* of a query carries the request's source; and no later step changes the
\* property_name of a committed Interaction.
C18_PropertyName ==
    [][/\ \A r \in Requests :
            CommitsQuery(r) =>
                \A q \in queries' \ queries :
                    /\ q.property_name =
                           IF q.listing_id = None THEN "General Inquiry"
                           ELSE ListingById(q.listing_id).title
                    /\ q.listing_id # None => ListingById(q.listing_id) # NoListing
                    /\ pc[r] = "b_commit" =>
                           q.source = "Brochure Download" /\ q.listing_id # None
                    /\ pc[r] = "q_commit" => q.source = req[r].query_source
       /\ \A q \in queries :
            \E p \in queries' :
                p.query_id = q.query_id /\ p.property_name = q.property_name]_vars

\* The ledger holds a brochure download of New Tower, a listing created
\* with a brochure, and a query that names no listing.
C18_Witness ==
    \E q1, q2 \in queries :
        /\ q1.source = "Brochure Download"
        /\ q1.listing_id = Some("L4") /\ q1.property_name = "New Tower"
        /\ q2.source \in QuerySources
        /\ q2.listing_id = None /\ q2.property_name = "General Inquiry"

\* C19 as claimed: a brochure request, a query or an activity log whose phone
\* is not a string of 10 to 15 digits after normalization is answered with a
\* validation error (422), and the step leaves every Lead and Interaction as
\* it was.
C19_AsClaimed ==
    [][\A r \in Requests, raw \in RejectedPhones :
          (pc[r] = "idle" /\ pc'[r] # "idle") =>
              /\ \A c \in Contacts, lid \in BrochureListingIds :
                    DownloadBrochure(r, raw, c, lid) =>
                        /\ result'[r] = 422
                        /\ <<users', queries', logs'>> = <<users, queries, logs>>
              /\ \A c \in Contacts, lid \in QueryListingIds, src \in QuerySources :
                    CreateQuery(r, raw, c, lid, src) =>
                        /\ result'[r] = 422
                        /\ <<users', queries', logs'>> = <<users, queries, logs>>
              /\ \A it \in InteractionTypes, fu \in FollowUpDates, staff \in StaffIds :
                    CreateLog(r, raw, it, fu, staff) =>
                        /\ result'[r] = 422
                        /\ <<users', queries', logs'>> = <<users, queries, logs>>]_vars

\* C20 as claimed: with operations interleaving, the commit of a brochure
\* request, a query or an activity log never changes the lead_status of a Lead
\* whose committed lead_status is not New, whatever the operation read before
\* another operation's commit.
C20_AsClaimed ==
    [][\A r \in Requests :
          (CommitsQuery(r) \/ CommitsLog(r)) =>
              LET old == UserById(users, req[r].user.user_id)
                  new == UserById(users', req[r].user.user_id)
              IN (~req[r].inserted /\ old.lead_status # "New") =>
                     new.lead_status = old.lead_status]_vars

\* C21 as claimed: a query that names a listing absent from the catalog is
\* answered 404 (or 500 when the database fails) and writes neither a Lead nor
\* an Interaction; and no step adds an Interaction whose listing_id is not
\* null and refers to no listing.
C21_AsClaimed ==
    [][/\ \A r \in Requests :
            (/\ pc[r] = "q_commit"
             /\ req[r].listing_id # None
             /\ ListingById(req[r].listing_id).listing_id = None
             /\ result'[r] # 0) =>
                /\ result'[r] \in {404, 500}
                /\ <<users', queries', logs'>> = <<users, queries, logs>>
       /\ \A q \in queries' \ queries :
            q.listing_id # None => ListingById(q.listing_id).listing_id # None]_vars

\* C22: in every reachable state each committed Interaction, property query
\* or call log, has a lead id that is not null and is the id of a Lead in the
\* table, and the phone of the Interaction is the phone of that Lead.
C22_InteractionHasLead ==
    /\ \A q \in queries :
          /\ q.user_id # NoUser.user_id
          /\ \E u \in users : u.user_id = q.user_id /\ u.phone = q.phone
    /\ \A l \in logs :
          /\ l.user_id # NoUser.user_id
          /\ \E u \in users : u.user_id = l.user_id /\ u.phone = l.phone

\* A brochure request created a Lead and an activity log followed on it:
\* both Interactions carry the new Lead's id and phone.
C22_Witness ==
    \E u \in users, q \in queries, l \in logs :
        /\ q.source = "Brochure Download"
        /\ u.user_id = NewUserId(q.query_id)
        /\ q.user_id = u.user_id /\ l.user_id = u.user_id
        /\ q.phone = u.phone /\ l.phone = u.phone
        /\ result[q.query_id] = 200 /\ result[l.call_id] = 200

====
